---------------------------- MODULE Spec2Model ----------------------------
(***************************************************************************)
(* Model of CodexService (src/src/main/services/CodexService.ts): the      *)
(* agent registry, the streaming child processes, the stream log writers   *)
(* and the cancellation protocol of stopMessageStream.                     *)
(*                                                                         *)
(* The service runs on one JavaScript event loop.  A step of the model is  *)
(* one run-to-completion piece of code: a public method up to its first    *)
(* await, one promise reaction (microtask), or one event delivered by a    *)
(* child process (macrotask).  Tasks run only when the microtask queue is  *)
(* empty; every call of a public method is made from a task of its own     *)
(* (an IPC request), so it too starts with the microtask queue empty.      *)
(*                                                                         *)
(* Strings are modelled as sequences of tokens, so that concatenation is   *)
(* sequence concatenation.  worktreePath only selects the cwd of the child *)
(* and the path of the log file and is not modelled.  A WriteStream held   *)
(* in streamLogWriters is never one that end() was called on (both places  *)
(* that end a writer replace or delete the entry in the same step), so the *)
(* `destroyed` tests of the code are false whenever a writer is found.     *)
(* The installation probe is the one the constructor starts;               *)
(* getInstallationStatus, which can start another while the first is       *)
(* pending, and getInstallationInstructions are not modelled.              *)
(***************************************************************************)
EXTENDS Integers, Sequences, FiniteSets, TLC

Workspaces == {"w1"}
Messages == {"m1"}
Chunks == {"c"}

\* Bounds of the model.
MaxTime == 2        \* values of Date.now() seen by createAgent
MaxObjects == 4     \* agents and children ever created, plus stream calls in flight
MaxExecs == 1       \* execFile calls of sendMessage in flight
MaxResp == 1        \* chunks accumulated in one lastResponse

VARIABLES
    heap,                     \* the CodexAgent objects, by reference
    agents,                   \* Map agents: references in insertion order
    isCodexInstalled,         \* "null" | "true" | "false"
    runningProcesses,         \* Map workspaceId -> child (0: no entry)
    streamLogWriters,         \* Map workspaceId -> has an open writer
    pendingCancellationLogs,  \* Set of workspaceId
    children,                 \* the ChildProcess objects, by reference
    execs,                    \* execFile calls of sendMessage in flight
    microtasks,               \* the promise job queue (FIFO)
    lastOp,                   \* the step just taken and what it returned
    emitted,                  \* events emitted on the bus by the step
    logOps,                   \* operations on log writers done by the step
    signals                   \* kill() calls made by the step

vars == <<heap, agents, isCodexInstalled, runningProcesses,
          streamLogWriters, pendingCancellationLogs, children, execs,
          microtasks, lastOp, emitted, logOps, signals>>

Undefined == <<"undefined">>
NoId == <<>>
NoOp == [op |-> "init", workspaceId |-> "", result |-> "", child |-> 0, agent |-> 0]
Op(o, w, r, c, a) == [op |-> o, workspaceId |-> w, result |-> r, child |-> c, agent |-> a]

\* The service state a handler reads and writes, with the outputs of the step.
Cur == [heap |-> heap, agents |-> agents, runningProcesses |-> runningProcesses,
        streamLogWriters |-> streamLogWriters,
        pendingCancellationLogs |-> pendingCancellationLogs,
        children |-> children, microtasks |-> microtasks,
        emitted |-> <<>>, logOps |-> <<>>, signals |-> <<>>]

Install(s) ==
    /\ heap' = s.heap
    /\ agents' = s.agents
    /\ runningProcesses' = s.runningProcesses
    /\ streamLogWriters' = s.streamLogWriters
    /\ pendingCancellationLogs' = s.pendingCancellationLogs
    /\ children' = s.children
    /\ microtasks' = s.microtasks
    /\ emitted' = s.emitted
    /\ logOps' = s.logOps
    /\ signals' = s.signals

\* interface CodexAgent
CodexAgent(w, t) ==
    [id |-> <<w, t>>, workspaceId |-> w, status |-> "idle",
     lastMessage |-> "undefined", lastResponse |-> Undefined]

\* Array.from(this.agents.values()).find((a) => a.workspaceId === workspaceId)
\* The reference of the first agent of the workspace in insertion order, or 0.
FindAgentIn(hp, ags, w) ==
    LET hits == {i \in 1..Len(ags) : hp[ags[i]].workspaceId = w}
    IN IF hits = {} THEN 0
       ELSE ags[CHOOSE i \in hits : \A j \in hits : i <= j]
FindAgent(s, w) == FindAgentIn(s.heap, s.agents, w)

getAgentStatus(w) == FindAgentIn(heap, agents, w)
getAllAgents == [i \in 1..Len(agents) |-> heap[agents[i]]]

\* this.emit(type, {workspaceId, ..., agentId})
emit(s, type, w, payload, agentId) ==
    [s EXCEPT !.emitted = Append(@, [type |-> type, workspaceId |-> w,
                                     payload |-> payload, agentId |-> agentId])]

LogOp(o, w, content) == [op |-> o, workspaceId |-> w, content |-> content]

initializeStreamLog(s, w, prompt) ==
    LET ended == IF s.streamLogWriters[w]
                 THEN <<LogOp("end", w, <<>>)>> ELSE <<>>
    IN [s EXCEPT !.pendingCancellationLogs = @ \ {w},
                 !.logOps = @ \o ended \o
                            <<LogOp("open", w, <<>>),
                              LogOp("write", w, <<"header", prompt>>)>>,
                 !.streamLogWriters[w] = TRUE]

appendStreamLog(s, w, content) ==
    IF ~s.streamLogWriters[w] THEN s
    ELSE [s EXCEPT !.logOps = Append(@, LogOp("write", w, content))]

finalizeStreamLog(s, w) ==
    LET s1 == [s EXCEPT !.pendingCancellationLogs = @ \ {w}]
    IN IF ~s1.streamLogWriters[w] THEN s1
       ELSE [s1 EXCEPT !.logOps = Append(@, LogOp("end", w, <<>>)),
                       !.streamLogWriters[w] = FALSE]

Init ==
    /\ heap = <<>>
    /\ agents = <<>>
    /\ isCodexInstalled = "null"
    /\ runningProcesses = [w \in Workspaces |-> 0]
    /\ streamLogWriters = [w \in Workspaces |-> FALSE]
    /\ pendingCancellationLogs = {}
    /\ children = <<>>
    /\ execs = <<>>
    /\ microtasks = <<>>
    /\ lastOp = NoOp
    /\ emitted = <<>>
    /\ logOps = <<>>
    /\ signals = <<>>

\* this.agents.set(agentId, agent): a new key is appended, an existing key
\* keeps its position and gets the new object.
MapSet(s, ref) ==
    LET same == {i \in 1..Len(s.agents) : s.heap[s.agents[i]].id = s.heap[ref].id}
    IN IF same = {} THEN [s EXCEPT !.agents = Append(@, ref)]
       ELSE [s EXCEPT !.agents = [i \in 1..Len(@) |-> IF i \in same THEN ref ELSE @[i]]]

\* Children that exist or that a sendMessageStream call in flight will spawn.
Commitments ==
    Len(children)
    + Cardinality({i \in 1..Len(microtasks) : microtasks[i].fromSend})
    + Cardinality({<<c, i>> \in (1..Len(children)) \X (1..MaxObjects) :
                     /\ i <= Len(children[c].waiters)
                     /\ children[c].waiters[i].fromSend})

\* stopMessageStream calls made by the user that have not returned yet.
UserStops ==
    Cardinality({i \in 1..Len(microtasks) :
                   /\ microtasks[i].stage \in {"catch", "stopCont"}
                   /\ ~microtasks[i].fromSend})
    + Cardinality({<<c, i>> \in (1..Len(children)) \X (1..MaxObjects) :
                     /\ i <= Len(children[c].waiters)
                     /\ ~children[c].waiters[i].fromSend})

\* What the bound of the model counts.
Objects == Len(heap) + Commitments + UserStops

\* The event loop is between tasks: no promise job is queued, and no child
\* that could not be started still has its 'error' to emit (it is emitted
\* from process.nextTick, before any other task runs).
Idle ==
    /\ microtasks = <<>>
    /\ \A c \in 1..Len(children) : children[c].state # "failed"

\* Date.now() never goes back: the time of a call is at least the time of
\* every agent created before it.
Clock ==
    LET ts == {heap[r].id[2] : r \in 1..Len(heap)} \cup {1}
    IN CHOOSE t \in ts : \A u \in ts : u <= t

createAgent(w, t) ==
    /\ Idle
    /\ Objects < MaxObjects
    /\ t >= Clock
    /\ LET ref == Len(heap) + 1
           s1 == [Cur EXCEPT !.heap = Append(@, CodexAgent(w, t))]
       IN /\ Install(MapSet(s1, ref))
          /\ lastOp' = Op("createAgent", w, "", 0, ref)
    /\ UNCHANGED <<isCodexInstalled, execs>>

\* A removal that drops every agent of the workspace.
MapDeleteWorkspace(s, ref) ==
    [s EXCEPT !.agents =
        SelectSeq(@, LAMBDA r : s.heap[r].workspaceId # s.heap[ref].workspaceId)]

\* this.agents.delete(agent.id)
MapDelete(s, ref) ==
    [s EXCEPT !.agents = SelectSeq(@, LAMBDA r : s.heap[r].id # s.heap[ref].id)]

removeAgent(w) ==
    /\ Idle
    /\ LET agent == FindAgent(Cur, w)
       IN IF agent # 0
          THEN /\ Install(MapDelete(Cur, agent))
               /\ lastOp' = Op("removeAgent", w, "true", 0, agent)
          ELSE /\ Install(Cur)
               /\ lastOp' = Op("removeAgent", w, "false", 0, 0)
    /\ UNCHANGED <<isCodexInstalled, execs>>

\* ---------------------------------------------------------------------
\* Installation probe

\* The constructor calls checkCodexInstallation(), which starts
\* `codex --version`; the result is stored one promise reaction after the
\* exec callback.  Until then isCodexInstalled is null.
Task(stage, w, agent, fromSend, message, child, result, payload) ==
    [stage |-> stage, workspaceId |-> w, agent |-> agent, fromSend |-> fromSend,
     message |-> message, child |-> child, result |-> result, payload |-> payload]

\* The exec callback of `codex --version` (a task) settles the promise
\* checkCodexInstallation awaits; with no other promise job queued, its
\* continuation is the next code to run, and stores the result.
CheckDone(ok) ==
    /\ Idle
    /\ isCodexInstalled = "null"
    /\ isCodexInstalled' = IF ok THEN "true" ELSE "false"
    /\ Install(Cur)
    /\ lastOp' = Op("checkCodexInstallation", "", isCodexInstalled', 0, 0)
    /\ UNCHANGED execs

\* ---------------------------------------------------------------------
\* Child processes and their listeners

Child(w, agent, state) ==
    [workspaceId |-> w, agent |-> agent, state |-> state, waiters |-> <<>>]

Alive(c) == children[c].state = "running"

\* child.stdout.on('data', ...)
onStdout(s, c, output) ==
    LET w == s.children[c].workspaceId
        a == s.children[c].agent
        s1 == appendStreamLog(s, w, <<output>>)
        s2 == [s1 EXCEPT !.heap[a].lastResponse =
                  IF @ = Undefined THEN <<output>> ELSE Append(@, output)]
    IN emit(s2, "codex:output", w, <<output>>, s2.heap[a].id)

\* child.stderr.on('data', ...)
onStderr(s, c, error) ==
    LET w == s.children[c].workspaceId
        a == s.children[c].agent
        s1 == appendStreamLog(s, w, <<"[ERROR]", error>>)
    IN emit(s1, "codex:error", w, <<error>>, s1.heap[a].id)

\* child.on('close', ...)
onClose(s, c, code) ==
    LET w == s.children[c].workspaceId
        a == s.children[c].agent
        s1 == [s EXCEPT !.runningProcesses[w] = 0, !.heap[a].status = "idle"]
        s2 == appendStreamLog(s1, w, <<"[COMPLETE]", code>>)
        s3 == IF w \notin s2.pendingCancellationLogs
              THEN finalizeStreamLog(s2, w) ELSE s2
    IN emit(s3, "codex:complete", w, <<code>>, s3.heap[a].id)

\* child.on('error', ...)
onError(s, c, message) ==
    LET w == s.children[c].workspaceId
        a == s.children[c].agent
        s1 == [s EXCEPT !.heap[a].status = "error", !.runningProcesses[w] = 0]
        s2 == appendStreamLog(s1, w, <<"[ERROR]", message>>)
        s3 == [s2 EXCEPT !.pendingCancellationLogs = @ \ {w}]
        s4 == finalizeStreamLog(s3, w)
    IN emit(s4, "codex:error", w, <<message>>, s4.heap[a].id)

\* resolve(true) / reject(error) of the promise of stopMessageStream: the
\* reaction of its .catch() is queued.
Settle(s, wt, result) ==
    [s EXCEPT !.microtasks =
        Append(@, Task("catch", wt.workspaceId, wt.agent, wt.fromSend,
                       wt.message, wt.child, result, <<>>))]

\* handleClose of one stopMessageStream call
handleClose(s, wt) ==
    LET w == wt.workspaceId
        s1 == appendStreamLog(s, w, <<"[CANCELLED]">>)
        s2 == [s1 EXCEPT !.pendingCancellationLogs = @ \ {w}]
        s3 == finalizeStreamLog(s2, w)
    IN Settle(s3, wt, TRUE)

\* handleError of one stopMessageStream call
handleError(s, wt) ==
    LET s1 == [s EXCEPT !.pendingCancellationLogs = @ \ {wt.workspaceId}]
    IN Settle(s1, wt, FALSE)

RECURSIVE CloseWaiters(_, _)
CloseWaiters(s, wts) ==
    IF wts = <<>> THEN s ELSE CloseWaiters(handleClose(s, Head(wts)), Tail(wts))

RECURSIVE ErrorWaiters(_, _)
ErrorWaiters(s, wts) ==
    IF wts = <<>> THEN s ELSE ErrorWaiters(handleError(s, Head(wts)), Tail(wts))

\* process.emit('close'): the handler of sendMessageStream, registered at
\* spawn, then the once-handlers of the stop calls in registration order.
EmitClose(s, c, code) ==
    LET wts == s.children[c].waiters
        s1 == onClose(s, c, code)
        s2 == CloseWaiters(s1, wts)
    IN [s2 EXCEPT !.children[c].waiters = <<>>, !.children[c].state = "closed"]

\* process.emit('error'): as EmitClose; cleanup() of each stop call removes
\* both of its listeners.
EmitError(s, c, message) ==
    LET wts == s.children[c].waiters
        s1 == onError(s, c, message)
        s2 == ErrorWaiters(s1, wts)
    IN [s2 EXCEPT !.children[c].waiters = <<>>]

ExitCodes == {"0"}

ChildStdout(c, output) ==
    /\ Idle
    /\ children[c].state \in {"running", "exited"}
    /\ LET r == heap[children[c].agent].lastResponse
       IN r = Undefined \/ Len(r) < MaxResp
    /\ Install(onStdout(Cur, c, output))
    /\ lastOp' = Op("stdout", children[c].workspaceId, "", c, children[c].agent)
    /\ UNCHANGED <<isCodexInstalled, execs>>

ChildStderr(c, error) ==
    /\ Idle
    /\ children[c].state \in {"running", "exited"}
    /\ Install(onStderr(Cur, c, error))
    /\ lastOp' = Op("stderr", children[c].workspaceId, "", c, children[c].agent)
    /\ UNCHANGED <<isCodexInstalled, execs>>

\* The process ends, by itself or because of a signal; its pipes are still open.
ChildExit(c) ==
    /\ Idle
    /\ children[c].state = "running"
    /\ Install([Cur EXCEPT !.children[c].state = "exited"])
    /\ lastOp' = Op("exit", children[c].workspaceId, "", c, children[c].agent)
    /\ UNCHANGED <<isCodexInstalled, execs>>

ChildClose(c, code) ==
    /\ Idle
    /\ c \in 1..Len(children)
    /\ children[c].state \in {"exited", "errored"}
    /\ Install(EmitClose(Cur, c, code))
    /\ lastOp' = Op("close", children[c].workspaceId, code, c, children[c].agent)
    /\ UNCHANGED <<isCodexInstalled, execs>>

\* A child that could not be started emits 'error' as soon as the code that
\* called spawn and the promise jobs it queued have run, and 'close' in a
\* later task; it writes nothing.
ChildSpawnError(c) ==
    /\ microtasks = <<>>
    /\ c \in 1..Len(children)
    /\ children[c].state = "failed"
    /\ Install([EmitError(Cur, c, "spawn ENOENT") EXCEPT !.children[c].state = "errored"])
    /\ lastOp' = Op("error", children[c].workspaceId, "", c, children[c].agent)
    /\ UNCHANGED <<isCodexInstalled, execs>>

\* ---------------------------------------------------------------------
\* stopMessageStream

Sig(c, sig, delivered) == [child |-> c, signal |-> sig, delivered |-> delivered]
signal(s, c, sig, delivered) == [s EXCEPT !.signals = Append(@, Sig(c, sig, delivered))]

\* What process.kill('SIGINT') can do: deliver the signal (returns true);
\* find the process gone (returns false, or throws ESRCH as the code
\* expects); fail with EPERM (emits 'error', returns false); throw because
\* the platform cannot send the signal (EINVAL).
KillOutcomes(c) ==
    IF children[c].state = "running"
    THEN {"delivered", "EPERM", "EINVAL"}
    ELSE {"notDelivered", "ESRCH"}

Waiter(w, agent, fromSend, message, c) ==
    [workspaceId |-> w, agent |-> agent, fromSend |-> fromSend,
     message |-> message, child |-> c]

\* stopMessageStream from line 256 to the await, for the tracked child.
StopCall(s, w, fromSend, message, outcome) ==
    LET c == s.runningProcesses[w]
        agent == FindAgent(s, w)
        wt == Waiter(w, agent, fromSend, message, c)
        s1 == [s EXCEPT !.pendingCancellationLogs = @ \cup {w}]
        listening == [s1 EXCEPT !.children[c].waiters = Append(@, wt)]
    IN CASE outcome = "delivered" ->
              signal(listening, c, "SIGINT", TRUE)
         [] outcome = "notDelivered" ->
              signal(signal(listening, c, "SIGINT", FALSE), c, "SIGTERM", FALSE)
         [] outcome = "EPERM" ->
              LET e1 == signal(EmitError(listening, c, "kill EPERM"), c, "SIGINT", FALSE)
              IN signal(EmitError(e1, c, "kill EPERM"), c, "SIGTERM", FALSE)
         [] outcome = "ESRCH" ->
              Settle(signal(s1, c, "SIGINT", FALSE), wt, TRUE)
         [] outcome = "EINVAL" ->
              Settle(signal(s1, c, "SIGINT", FALSE), wt, FALSE)

\* A stop that also ends the log of the workspace.
stopNoProcessFinalizing(s, w) == finalizeStreamLog(s, w)

\* stopMessageStream when no process is tracked, lines 250-254.
stopNoProcess(s, w) == [s EXCEPT !.pendingCancellationLogs = @ \ {w}]

stopMessageStream(w) ==
    /\ Idle
    /\ LET c == runningProcesses[w]
       IN IF c = 0
          THEN /\ Install(stopNoProcess(Cur, w))
               /\ lastOp' = Op("stopMessageStream", w, "true", 0, 0)
          ELSE /\ Objects < MaxObjects
               /\ \E outcome \in KillOutcomes(c) :
                     Install(StopCall(Cur, w, FALSE, "", outcome))
               /\ lastOp' = Op("stopMessageStream", w, "pending", c, FindAgent(Cur, w))
    /\ UNCHANGED <<isCodexInstalled, execs>>

\* The reaction of .catch(): a rejection becomes false, a value passes on.
RunCatch ==
    /\ microtasks # <<>>
    /\ Head(microtasks).stage = "catch"
    /\ Install([Cur EXCEPT !.microtasks =
                   Append(Tail(@), [Head(microtasks) EXCEPT !.stage = "stopCont"])])
    /\ lastOp' = Op("catch", Head(microtasks).workspaceId, "", Head(microtasks).child,
                    Head(microtasks).agent)
    /\ UNCHANGED <<isCodexInstalled, execs>>

\* A continuation that forgets to reset the agent.
stopResumeKeepingStatus(s, t) == [s EXCEPT !.runningProcesses[t.workspaceId] = 0]

\* stopMessageStream after its await (lines 308-313).
stopResume(s, t) ==
    LET s1 == [s EXCEPT !.runningProcesses[t.workspaceId] = 0]
    IN IF t.agent # 0 THEN [s1 EXCEPT !.heap[t.agent].status = "idle"] ELSE s1

RunStopCont ==
    /\ microtasks # <<>>
    /\ Head(microtasks).stage = "stopCont"
    /\ LET t == Head(microtasks)
           s1 == stopResume([Cur EXCEPT !.microtasks = Tail(@)], t)
       IN /\ Install(IF t.fromSend
                     THEN [s1 EXCEPT !.microtasks = Append(@, [t EXCEPT !.stage = "sendCont"])]
                     ELSE s1)
          /\ lastOp' = Op("stopMessageStream:resolved", t.workspaceId,
                          IF t.result THEN "true" ELSE "false", t.child, t.agent)
    /\ UNCHANGED <<isCodexInstalled, execs>>

\* ---------------------------------------------------------------------
\* sendMessageStream

NoAgentError == <<"No agent found for this workspace">>
NotInstalledError ==
    <<"Codex CLI is not installed. Please install it with: npm install -g @openai/codex">>

\* spawn('codex', args, ...): the child starts, or cannot be started (an
\* 'error' event follows), or spawn throws on invalid arguments.
SpawnOutcomes == {"ok", "fail", "throw"}

\* sendMessageStream from line 177 to its end.
sendProceed(s, w, agent, message, outcome) ==
    LET s1 == [s EXCEPT !.heap[agent].status = "running",
                        !.heap[agent].lastMessage = message,
                        !.heap[agent].lastResponse = IF @ = Undefined THEN <<>> ELSE @]
        s2 == initializeStreamLog(s1, w, message)
    IN IF outcome = "throw"
       THEN LET c1 == [s2 EXCEPT !.heap[agent].status = "error",
                                 !.runningProcesses[w] = 0]
                c2 == appendStreamLog(c1, w, <<"[ERROR]", "spawn threw">>)
                c3 == [c2 EXCEPT !.pendingCancellationLogs = @ \ {w}]
                c4 == finalizeStreamLog(c3, w)
            IN emit(c4, "codex:error", w, <<"spawn threw">>, c4.heap[agent].id)
       ELSE [s2 EXCEPT !.children =
                          Append(@, Child(w, agent, IF outcome = "ok" THEN "running"
                                                    ELSE "failed")),
                       !.runningProcesses[w] = Len(s2.children) + 1]

\* A not-installed branch that leaves the log open.
sendNotInstalledUnfinalized(s, w, agent, message) ==
    LET s1 == initializeStreamLog(s, w, message)
        s2 == appendStreamLog(s1, w, <<"[ERROR]">> \o NotInstalledError)
    IN emit(s2, "codex:error", w, NotInstalledError, NoId)

\* A no-agent branch that also drops the tracked process.
sendNoAgentUntracking(s, w) ==
    emit([s EXCEPT !.runningProcesses[w] = 0], "codex:error", w, NoAgentError, NoId)

\* The no-agent branch, lines 152-155.
sendNoAgent(s, w) == emit(s, "codex:error", w, NoAgentError, NoId)

\* The not-installed branch, lines 157-170.
sendNotInstalled(s, w, agent, message) ==
    LET s1 == initializeStreamLog(s, w, message)
        s2 == appendStreamLog(s1, w, <<"[ERROR]">> \o NotInstalledError)
        s3 == finalizeStreamLog(s2, w)
    IN emit(s3, "codex:error", w, NotInstalledError, NoId)

sendMessageStream(w, message) ==
    /\ Idle
    /\ LET agent == FindAgent(Cur, w)
       IN IF agent = 0
          THEN /\ Install(sendNoAgent(Cur, w))
               /\ lastOp' = Op("sendMessageStream", w, "noAgent", 0, 0)
          ELSE IF isCodexInstalled # "true"
          THEN /\ Install(sendNotInstalled(Cur, w, agent, message))
               /\ lastOp' = Op("sendMessageStream", w, "notInstalled", 0, agent)
          ELSE IF runningProcesses[w] # 0
          THEN /\ Objects < MaxObjects
               /\ \E outcome \in KillOutcomes(runningProcesses[w]) :
                     Install(StopCall(Cur, w, TRUE, message, outcome))
               /\ lastOp' = Op("sendMessageStream", w, "stopping",
                               runningProcesses[w], agent)
          ELSE /\ Objects < MaxObjects
               /\ \E outcome \in SpawnOutcomes :
                     /\ Install(sendProceed(Cur, w, agent, message, outcome))
                     /\ lastOp' = Op("sendMessageStream", w, outcome,
                                     IF outcome = "throw" THEN 0 ELSE Len(children) + 1,
                                     agent)
    /\ UNCHANGED <<isCodexInstalled, execs>>

\* sendMessageStream after `await this.stopMessageStream(workspaceId)`.
RunSendCont ==
    /\ microtasks # <<>>
    /\ Head(microtasks).stage = "sendCont"
    /\ LET t == Head(microtasks)
       IN \E outcome \in SpawnOutcomes :
             /\ Install(sendProceed([Cur EXCEPT !.microtasks = Tail(@)],
                                    t.workspaceId, t.agent, t.message, outcome))
             /\ lastOp' = Op("sendMessageStream:resumed", t.workspaceId, outcome,
                             IF outcome = "throw" THEN 0 ELSE Len(children) + 1,
                             t.agent)
    /\ UNCHANGED <<isCodexInstalled, execs>>

\* ---------------------------------------------------------------------
\* sendMessage (non-streaming)

Outputs == {<<>>} \cup {<<c>> : c \in Chunks}
ErrorKinds == {"ENOENT", "message"}

\* The catch block of sendMessage, lines 376-385; the calls of the model
\* fail in two of its five ways.
ErrorMessage(kind) ==
    CASE kind = "ENOENT" ->
           "Codex CLI not found. Please install it with: npm install -g @openai/codex"
      [] kind = "TIMEOUT" -> "Codex command timed out"
      [] kind = "stderr" -> "error.stderr"
      [] kind = "message" -> "error.message"
      [] OTHER -> "Unknown error occurred"

sendMessage(w, message) ==
    /\ Idle
    /\ LET agent == FindAgent(Cur, w)
       IN IF agent = 0
          THEN /\ Install(Cur)
               /\ execs' = execs
               /\ lastOp' = Op("sendMessage", w, "No agent found for this workspace", 0, 0)
          ELSE IF isCodexInstalled # "true"
          THEN /\ Install(Cur)
               /\ execs' = execs
               /\ lastOp' = Op("sendMessage", w, NotInstalledError[1], 0, agent)
          ELSE /\ Len(execs) < MaxExecs
               /\ Install([Cur EXCEPT !.heap[agent].status = "running",
                                      !.heap[agent].lastMessage = message])
               /\ execs' = Append(execs, agent)
               /\ lastOp' = Op("sendMessage", w, "pending", 0, agent)
    /\ UNCHANGED <<isCodexInstalled>>

\* The callback of execFile (a task) settles the promise sendMessage
\* awaits; its continuation (lines 361-393) is the next code to run.
ExecDone(i, ok, payload) ==
    /\ Idle
    /\ i \in 1..Len(execs)
    /\ execs' = SubSeq(execs, 1, i - 1) \o SubSeq(execs, i + 1, Len(execs))
    /\ LET agent == execs[i]
       IN IF ok
          THEN /\ Install([Cur EXCEPT !.heap[agent].status = "idle",
                                      !.heap[agent].lastResponse = payload])
               /\ lastOp' = Op("sendMessage:resolved", heap[agent].workspaceId,
                               "success", 0, agent)
          ELSE /\ Install([Cur EXCEPT !.heap[agent].status = "error"])
               /\ lastOp' = Op("sendMessage:resolved", heap[agent].workspaceId,
                               ErrorMessage(payload[1]), 0, agent)
    /\ UNCHANGED isCodexInstalled

Next ==
    \/ \E w \in Workspaces, t \in 1..MaxTime : createAgent(w, t)
    \/ \E w \in Workspaces : removeAgent(w)
    \/ \E ok \in BOOLEAN : CheckDone(ok)
    \/ \E w \in Workspaces, m \in Messages : sendMessageStream(w, m)
    \/ \E w \in Workspaces : stopMessageStream(w)
    \/ RunCatch
    \/ RunStopCont
    \/ RunSendCont
    \/ \E w \in Workspaces, m \in Messages : sendMessage(w, m)
    \/ \E i \in 1..MaxExecs, out \in Outputs : ExecDone(i, TRUE, out)
    \/ \E i \in 1..MaxExecs, k \in ErrorKinds : ExecDone(i, FALSE, <<k>>)
    \/ \E c \in 1..Len(children), o \in Chunks : ChildStdout(c, o)
    \/ \E c \in 1..Len(children), e \in Chunks : ChildStderr(c, e)
    \/ \E c \in 1..Len(children) : ChildExit(c)
    \/ \E c \in 1..Len(children), code \in ExitCodes : ChildClose(c, code)
    \/ \E c \in 1..Len(children) : ChildSpawnError(c)

Spec == Init /\ [][Next]_vars

\* The event loop runs every queued promise job and delivers the 'error'
\* of a child that could not be started and the 'close' of a child that
\* has exited.  Nothing makes a running child exit: it may ignore SIGINT.
FairSpec ==
    /\ Spec
    /\ WF_vars(RunCatch) /\ WF_vars(RunStopCont) /\ WF_vars(RunSendCont)
    /\ \A c \in 1..MaxObjects :
          /\ WF_vars(ChildSpawnError(c))
          /\ WF_vars(\E code \in ExitCodes : ChildClose(c, code))

\* ---------------------------------------------------------------------
\* Sanity of the model

TypeOK ==
    /\ isCodexInstalled \in {"null", "true", "false"}
    /\ \A w \in Workspaces : runningProcesses[w] \in 0..Len(children)
    /\ \A i \in 1..Len(agents) : agents[i] \in 1..Len(heap)
    /\ \A r \in 1..Len(heap) : heap[r].status \in {"idle", "running", "error"}
    /\ \A c \in 1..Len(children) :
          /\ children[c].state \in {"running", "failed", "errored", "exited", "closed"}
          /\ children[c].agent \in 1..Len(heap)
    /\ Objects <= MaxObjects
    /\ Len(execs) <= MaxExecs

\* A tracked child has not emitted 'close' yet.
TrackedNotClosed ==
    \A w \in Workspaces :
        runningProcesses[w] # 0 => children[runningProcesses[w]].state # "closed"
\* ---------------------------------------------------------------------
\* Claims

Registered(w) == getAgentStatus(w)
Event(type, w, payload, agentId) ==
    [type |-> type, workspaceId |-> w, payload |-> payload, agentId |-> agentId]

\* C1: the registry holds at most one agent per workspaceId, and
\* getAgentStatus(w) returns the agent most recently created for w.
C1_OneAgentPerWorkspace ==
    /\ \A i, j \in 1..Len(getAllAgents) :
          getAllAgents[i].workspaceId = getAllAgents[j].workspaceId => i = j
    /\ lastOp.op = "createAgent" => getAgentStatus(lastOp.workspaceId) = lastOp.agent

\* C2: every live child spawned for w is the one stored in
\* runningProcesses[w] (so at most one is alive per workspace), and a child
\* is spawned only after the earlier children of the workspace have closed.
C2_OneLiveChildPerWorkspace ==
    /\ \A c \in 1..Len(children) :
          Alive(c) => runningProcesses[children[c].workspaceId] = c
    /\ (lastOp.op \in {"sendMessageStream", "sendMessageStream:resumed"}
        /\ lastOp.result \in {"ok", "fail"})
       => \A c \in 1..(lastOp.child - 1) :
             children[c].workspaceId = lastOp.workspaceId
             => children[c].state = "closed"

\* C3: every stdout or stderr chunk of a child is emitted on the bus and
\* written to the open log writer of its workspace, by the same handler.
C3_ChunksReachBothSinks ==
    lastOp.op \in {"stdout", "stderr"} =>
        /\ Len(emitted) = 1
        /\ emitted[1].type = (IF lastOp.op = "stdout" THEN "codex:output" ELSE "codex:error")
        /\ Len(logOps) = 1
        /\ logOps[1].op = "write"
        /\ logOps[1].workspaceId = emitted[1].workspaceId
        /\ logOps[1].content =
             (IF lastOp.op = "stdout" THEN emitted[1].payload
              ELSE <<"[ERROR]">> \o emitted[1].payload)
        /\ streamLogWriters[lastOp.workspaceId]

\* C4: sendMessageStream(w, m) with no agent registered for w emits exactly
\* one codex:error event, spawns no child and leaves agents,
\* runningProcesses, streamLogWriters and pendingCancellationLogs unchanged.
C4_SendWithoutAgent ==
    [][(lastOp'.op = "sendMessageStream" /\ Registered(lastOp'.workspaceId) = 0) =>
          /\ emitted' = <<Event("codex:error", lastOp'.workspaceId, NoAgentError, NoId)>>
          /\ children' = children
          /\ signals' = <<>>
          /\ logOps' = <<>>
          /\ UNCHANGED <<heap, agents, runningProcesses, streamLogWriters,
                         pendingCancellationLogs, microtasks, execs>>]_vars

\* The call came although a process of the removed agent is still tracked.
C4_Witness ==
    /\ lastOp.op = "sendMessageStream"
    /\ lastOp.result = "noAgent"
    /\ runningProcesses[lastOp.workspaceId] # 0
    /\ Len(emitted) = 1

\* C5: with the CLI not recorded as installed, sendMessageStream(w, m) for
\* a registered agent spawns no child, emits exactly one codex:error with
\* the install hint, leaves the agent unchanged and leaves no log writer
\* for w (the log is opened, written and ended within the call);
\* sendMessage returns success=false with the agent's id and leaves the
\* agent unchanged.
C5_NotInstalled ==
    [][LET w == lastOp'.workspaceId
           a == Registered(w)
       IN (a # 0 /\ isCodexInstalled # "true") =>
            /\ lastOp'.op = "sendMessageStream" =>
                 /\ children' = children
                 /\ signals' = <<>>
                 /\ emitted' = <<Event("codex:error", w, NotInstalledError, NoId)>>
                 /\ heap' = heap /\ agents' = agents
                 /\ runningProcesses' = runningProcesses
                 /\ ~streamLogWriters'[w]
                 /\ Len(logOps') >= 4
                 /\ \E m \in Messages :
                      SubSeq(logOps', Len(logOps') - 3, Len(logOps')) =
                        <<LogOp("open", w, <<>>),
                          LogOp("write", w, <<"header", m>>),
                          LogOp("write", w, <<"[ERROR]">> \o NotInstalledError),
                          LogOp("end", w, <<>>)>>
            /\ lastOp'.op = "sendMessage" =>
                 /\ lastOp'.result # "success"
                 /\ lastOp'.result = NotInstalledError[1]
                 /\ lastOp'.agent = a
                 /\ heap' = heap /\ agents' = agents
                 /\ execs' = execs /\ children' = children]_vars

C5_Witness ==
    /\ lastOp.op = "sendMessageStream"
    /\ lastOp.result = "notInstalled"
    /\ isCodexInstalled = "false"
    /\ Len(logOps) = 4
    /\ ~streamLogWriters[lastOp.workspaceId]

\* C6: stopMessageStream(w) with no process tracked for w resolves to true,
\* sends no signal and changes nothing but pendingCancellationLogs, from
\* which it removes w.
C6_StopWithoutProcess ==
    [][(lastOp'.op = "stopMessageStream" /\ runningProcesses[lastOp'.workspaceId] = 0) =>
          /\ lastOp'.result = "true"
          /\ signals' = <<>>
          /\ emitted' = <<>>
          /\ logOps' = <<>>
          /\ children' = children
          /\ pendingCancellationLogs' = pendingCancellationLogs \ {lastOp'.workspaceId}
          /\ UNCHANGED <<heap, agents, runningProcesses, streamLogWriters,
                         microtasks, execs>>]_vars

\* The call returned true while a log writer of an earlier stream is open.
C6_Witness ==
    /\ lastOp.op = "stopMessageStream"
    /\ lastOp.result = "true"
    /\ streamLogWriters[lastOp.workspaceId]
    /\ lastOp.workspaceId \notin pendingCancellationLogs

\* C7 as claimed: when a stopMessageStream(w) call that found a tracked
\* process resolves, runningProcesses has no entry for w and the agent
\* registered for w is idle; it resolves to true only if the targeted child
\* has closed or had already exited.
C7_StopPostcondition ==
    lastOp.op = "stopMessageStream:resolved" =>
        /\ runningProcesses[lastOp.workspaceId] = 0
        /\ Registered(lastOp.workspaceId) # 0
             => heap[Registered(lastOp.workspaceId)].status = "idle"
        /\ lastOp.result = "true"
             => children[lastOp.child].state \in {"closed", "exited"}

\* C7 as amended: the agent that is idle is the one that was registered for
\* w when the call was made.
C7_StopPostconditionOfCapturedAgent ==
    lastOp.op = "stopMessageStream:resolved" =>
        /\ runningProcesses[lastOp.workspaceId] = 0
        /\ lastOp.agent # 0 => heap[lastOp.agent].status = "idle"
        /\ lastOp.result = "true"
             => children[lastOp.child].state \in {"closed", "exited"}

\* A call resolved to false and left its child alive and untracked.
C7_Witness ==
    /\ lastOp.op = "stopMessageStream:resolved"
    /\ lastOp.result = "false"
    /\ lastOp.agent # 0
    /\ Alive(lastOp.child)

\* A stopMessageStream call has been made for child c and has not returned.
Awaiting(c) ==
    /\ c <= Len(children)
    /\ \/ children[c].waiters # <<>>
       \/ \E i \in 1..Len(microtasks) :
             microtasks[i].stage \in {"catch", "stopCont"} /\ microtasks[i].child = c

\* C8: every stopMessageStream(w) call that found a tracked child
\* eventually returns.
C8_StopEventuallyReturns ==
    \A c \in 1..MaxObjects : Awaiting(c) ~> ~Awaiting(c)

\* C9: removeAgent(w) returns true exactly when an agent with workspaceId w
\* was registered; on true it deletes exactly the first-inserted entry of w
\* and changes nothing else; on false nothing changes.
C9_RemoveAgent ==
    [][lastOp'.op = "removeAgent" =>
         LET w == lastOp'.workspaceId
             hits == {i \in 1..Len(agents) : heap[agents[i]].workspaceId = w}
         IN /\ (lastOp'.result = "true") <=> (hits # {})
            /\ lastOp'.result \in {"true", "false"}
            /\ hits # {} =>
                 \E k \in hits :
                    /\ \A j \in hits : k <= j
                    /\ agents' = SubSeq(agents, 1, k - 1) \o SubSeq(agents, k + 1, Len(agents))
            /\ hits = {} => agents' = agents
            /\ children' = children
            /\ UNCHANGED <<heap, runningProcesses, streamLogWriters,
                           pendingCancellationLogs, microtasks, execs>>]_vars

\* An agent was removed and another agent of the workspace is still registered.
C9_Witness ==
    /\ lastOp.op = "removeAgent"
    /\ lastOp.result = "true"
    /\ Registered(lastOp.workspaceId) # 0
    /\ Registered(lastOp.workspaceId) # lastOp.agent
=============================================================================
